---- MODULE Spec2Model ----
(***************************************************************************)
(* Model of createControlledTypeScriptSystem: the watcher registries, the  *)
(* deleted-file tracker and the deferred task queue of the controlled      *)
(* TypeScript system.                                                      *)
(*                                                                         *)
(* A path is the sequence of its components: <<>> is "/", <<"a","b">> is   *)
(* "/a/b".  A callback is an identity (a string).                          *)
(***************************************************************************)
EXTENDS Integers, Sequences, FiniteSets, TLC

\* ------------------------------------------------------------------ bounds
MaxHandles == 2        \* watch handles created in one run
MaxReentrantHandles == 3   \* the same, in the runs with callbacks that call back
MaxTasks == 3          \* setTimeout calls in one run (chained ones included)
MaxChain == 2          \* longest chain a task callback starts (T1 -> T2 -> T3)
MaxWaiters == 1        \* waitForQueued calls in one run

\* ------------------------------------------------------------------ inputs
Callbacks == {"cb1", "cb2"}
RawFilePaths == {<<"a", "b", "c">>, <<"a", "b", "C">>}
RawDirPaths == {<<>>, <<"a">>, <<"a", "b">>}
RawNewDirs == {<<>>, <<"a", "d">>}

VARIABLES
  caseSensitive,                  \* ts.sys.useCaseSensitiveFileNames
  fileWatchersMap,                \* path -> callbacks
  directoryWatchersMap,           \* path -> callbacks
  recursiveDirectoryWatchersMap,  \* path -> callbacks
  deletedFiles,                   \* the paths whose entry is true (the map is only
                                  \* read by get(), where absent and false are alike)
  handles,                        \* the watchers returned so far, with their history
  log,                            \* the callbacks the last operation invoked, in order
  lastOp,                         \* the last operation and its argument
  pre,                            \* the registries and marks before the last operation
  lastWasDelete,                  \* the paths whose latest write or delete was a delete
  fileEvents,                     \* the file events the last operation fired, in order
  lastDeletedEvent,               \* the paths whose latest "Deleted" or "Created"
                                  \* event was "Deleted"
  timeoutCallbacks,               \* the set of pending timeout ids
  immediates,                     \* the host's queue of setImmediate callbacks
  nextId,                         \* the next Immediate object the host hands out
  fired,                          \* the ids of the task callbacks run so far, in order
  cancelled,                      \* the ids cleared while still queued
  waiters,                        \* the waitForQueued calls and their state
  lastQ                           \* the last queue operation and what it saw

watchVars == <<caseSensitive, fileWatchersMap, directoryWatchersMap,
               recursiveDirectoryWatchersMap, deletedFiles, handles, log, lastOp, pre,
               lastWasDelete, fileEvents, lastDeletedEvent>>
queueVars == <<timeoutCallbacks, immediates, nextId, fired, cancelled, waiters, lastQ>>
vars == <<watchVars, queueVars>>

\* ------------------------------------------------------------ Map helpers
\* Map.get(k) || []
MapGet(m, k) == IF k \in DOMAIN m THEN m[k] ELSE <<>>
\* Map.set(k, v)
MapSet(m, k, v) == [x \in (DOMAIN m) \cup {k} |-> IF x = k THEN v ELSE m[x]]
\* Map.delete(k)
MapDelete(m, k) == [x \in (DOMAIN m) \ {k} |-> m[x]]
EmptyMap == <<>>

\* --------------------------------------------------------------- paths
Lower(name) == IF name = "C" THEN "c" ELSE name

\* fileSystem.normalizePath: the construction-time case rule
normalizePath(cs, path) ==
  IF cs THEN path ELSE [i \in 1..Len(path) |-> Lower(path[i])]

\* posix.dirname on an absolute path; the root is its own dirname
dirname(path) == IF Len(path) = 0 THEN path ELSE SubSeq(path, 1, Len(path) - 1)

\* -------------------------------------------------------- createWatcher
createWatcher(watchersMap, path, callback) ==
  MapSet(watchersMap, path, Append(MapGet(watchersMap, path), callback))

\* a close() that removes nothing
closeWatcher_Keep(watchersMap, path, callback) == watchersMap

\* a close() that leaves the emptied list in the map
closeWatcher_KeepEmpty(watchersMap, path, callback) ==
  MapSet(watchersMap, path,
         SelectSeq(MapGet(watchersMap, path), LAMBDA watcher : watcher # callback))

\* the close() of the returned handle
closeWatcher(watchersMap, path, callback) ==
  LET watchers == MapGet(watchersMap, path)
      nextWatchers == SelectSeq(watchers, LAMBDA watcher : watcher # callback)
  IN IF Len(nextWatchers) > 0
       THEN MapSet(watchersMap, path, nextWatchers)
       ELSE MapDelete(watchersMap, path)

\* ------------------------------------------------------- notification
\* The registries and the log as a notification pass sees and changes them.
\* What a callback does with the system when it is called with `path`.
\* "cb1" and "cb2" leave the registries alone.  The others call the system
\* back from inside the pass: "addFile" watches the file it is told about
\* with cb2, "closeFile" closes the file watcher cb1 of that file,
\* "addRecursive" watches the grandparent directory recursively with cb2 and
\* "closeRecursive" closes the recursive watcher cb1 of the grandparent.  The
\* two that add do so once: not while cb2 is registered there.  `path` comes
\* from the system and is normalized already.
Registered(watchersMap, path, callback) ==
  \E i \in DOMAIN MapGet(watchersMap, path) : MapGet(watchersMap, path)[i] = callback

Effect(W, cb, path) ==
  CASE cb = "addFile" ->
         IF Registered(W.fw, path, "cb2") THEN W
         ELSE [W EXCEPT !.fw = createWatcher(@, path, "cb2")]
    [] cb = "closeFile" -> [W EXCEPT !.fw = closeWatcher(@, path, "cb1")]
    [] cb = "addRecursive" ->
         IF Registered(W.rw, dirname(dirname(path)), "cb2") THEN W
         ELSE [W EXCEPT !.rw = createWatcher(@, dirname(dirname(path)), "cb2")]
    [] cb = "closeRecursive" ->
         [W EXCEPT !.rw = closeWatcher(@, dirname(dirname(path)), "cb1")]
    [] OTHER -> W

\* One invocation of a callback: the call is recorded, then the callback runs.
Invoke(W, map, key, cb, path, event) ==
  Effect([W EXCEPT !.log = Append(@, [map |-> map, key |-> key, cb |-> cb,
                                      path |-> path, event |-> event])],
         cb, path)

\* Array.prototype.forEach over the array `list`, calling each callback
RECURSIVE ForEach(_, _, _, _, _, _)
ForEach(W, list, map, key, path, event) ==
  IF list = <<>> THEN W
  ELSE ForEach(Invoke(W, map, key, Head(list), path, event),
               Tail(list), map, key, path, event)

\* a pass that reads the list of the path from the map again at every step
RECURSIVE ForEachLive(_, _, _, _)
ForEachLive(W, i, path, event) ==
  IF i > Len(MapGet(W.fw, path)) THEN W
  ELSE ForEachLive(Invoke(W, "file", path, MapGet(W.fw, path)[i], path, event),
                   i + 1, path, event)

invokeFileWatchers_Live(W, path, event) ==
  [ForEachLive(W, 1, path, event)
     EXCEPT !.events = Append(@, [path |-> path, event |-> event])]

\* W.events records the call itself, whether or not a watcher is registered
invokeFileWatchers(W, path, event) ==
  LET fileWatchers == MapGet(W.fw, path)
  IN [ForEach(W, fileWatchers, "file", path, path, event)
        EXCEPT !.events = Append(@, [path |-> path, event |-> event])]

\* the while loop of invokeDirectoryWatchers
RECURSIVE AncestorWalk(_, _, _)
AncestorWalk(W, directory, path) ==
  IF directory = dirname(directory) THEN W
  ELSE AncestorWalk(
         ForEach(W, MapGet(W.rw, directory), "rdir", directory, path, "None"),
         dirname(directory), path)

\* a walk that calls the non-recursive watchers of every ancestor
RECURSIVE AncestorWalk_NonRecursiveToo(_, _, _)
AncestorWalk_NonRecursiveToo(W, directory, path) ==
  IF directory = dirname(directory) THEN W
  ELSE AncestorWalk_NonRecursiveToo(
         ForEach(ForEach(W, MapGet(W.dw, dirname(directory)), "dir",
                         dirname(directory), path, "None"),
                 MapGet(W.rw, directory), "rdir", directory, path, "None"),
         dirname(directory), path)

invokeDirectoryWatchers_Deep(W, path) ==
  LET directory == dirname(path)
      W1 == ForEach(W, MapGet(W.dw, directory), "dir", directory, path, "None")
  IN AncestorWalk_NonRecursiveToo(W1, directory, path)

invokeDirectoryWatchers(W, path) ==
  LET directory == dirname(path)
      directoryWatchers == MapGet(W.dw, directory)
      W1 == ForEach(W, directoryWatchers, "dir", directory, path, "None")
  IN AncestorWalk(W1, directory, path)

\* invokeFileChanged without the Created branch
invokeFileChanged_NoCreated(W, normalizedPath) ==
  invokeFileWatchers(invokeDirectoryWatchers(W, normalizedPath), normalizedPath, "Changed")

\* invokeFileChanged that calls the file watchers before the directory watchers
invokeFileChanged_FileFirst(W, normalizedPath) ==
  IF normalizedPath \in W.deleted
    THEN [invokeDirectoryWatchers(invokeFileWatchers(W, normalizedPath, "Created"),
                                  normalizedPath)
            EXCEPT !.deleted = @ \ {normalizedPath}]
    ELSE invokeDirectoryWatchers(invokeFileWatchers(W, normalizedPath, "Changed"),
                                 normalizedPath)

\* invokeFileChanged that fires "Created" and leaves the mark set
invokeFileChanged_KeepMark(W, normalizedPath) ==
  LET W1 == invokeDirectoryWatchers(W, normalizedPath)
  IN invokeFileWatchers(W1, normalizedPath,
                        IF normalizedPath \in W1.deleted THEN "Created" ELSE "Changed")

invokeFileChanged(W, normalizedPath) ==
  LET W1 == invokeDirectoryWatchers(W, normalizedPath)
  IN IF normalizedPath \in W1.deleted
       THEN [invokeFileWatchers(W1, normalizedPath, "Created")
               EXCEPT !.deleted = @ \ {normalizedPath}]
       ELSE invokeFileWatchers(W1, normalizedPath, "Changed")

\* invokeFileDeleted without the guard on the mark
invokeFileDeleted_NoGuard(W, normalizedPath) ==
  [invokeFileWatchers(invokeDirectoryWatchers(W, normalizedPath), normalizedPath, "Deleted")
     EXCEPT !.deleted = @ \cup {normalizedPath}]

\* invokeFileDeleted that fires "Deleted" and does not set the mark
invokeFileDeleted_NoMark(W, normalizedPath) ==
  IF ~(normalizedPath \in W.deleted)
    THEN invokeFileWatchers(invokeDirectoryWatchers(W, normalizedPath),
                            normalizedPath, "Deleted")
    ELSE W

invokeFileDeleted(W, normalizedPath) ==
  IF ~(normalizedPath \in W.deleted)
    THEN [invokeFileWatchers(invokeDirectoryWatchers(W, normalizedPath),
                             normalizedPath, "Deleted")
            EXCEPT !.deleted = @ \cup {normalizedPath}]
    ELSE W

\* setModifiedTime that goes through invokeFileChanged
setModifiedTime_AsChange(W, normalizedPath) == invokeFileChanged(W, normalizedPath)

setModifiedTime(W, normalizedPath) ==
  invokeFileWatchers(invokeDirectoryWatchers(W, normalizedPath), normalizedPath, "Changed")

createDirectory(W, normalizedPath) == invokeDirectoryWatchers(W, normalizedPath)

\* ------------------------------------------------------------ the state
World == [fw |-> fileWatchersMap, dw |-> directoryWatchersMap,
          rw |-> recursiveDirectoryWatchersMap, deleted |-> deletedFiles,
          log |-> <<>>, events |-> <<>>]

Snapshot == [fw |-> fileWatchersMap, dw |-> directoryWatchersMap,
             rw |-> recursiveDirectoryWatchersMap, deleted |-> deletedFiles,
             lastWasDelete |-> lastWasDelete, lastDeletedEvent |-> lastDeletedEvent]

NoHandle == [map |-> "none", path |-> <<>>, cb |-> "none", n |-> 0,
             closed |-> FALSE, again |-> FALSE, shadowed |-> FALSE]

InitWatch ==
  /\ caseSensitive \in BOOLEAN
  /\ fileWatchersMap = EmptyMap
  /\ directoryWatchersMap = EmptyMap
  /\ recursiveDirectoryWatchersMap = EmptyMap
  /\ deletedFiles = {}
  /\ handles = {}
  /\ log = <<>>
  /\ lastOp = [op |-> "init", path |-> <<>>, h |-> NoHandle]
  /\ pre = [fw |-> EmptyMap, dw |-> EmptyMap, rw |-> EmptyMap, deleted |-> {},
            lastWasDelete |-> {}, lastDeletedEvent |-> {}]
  /\ lastWasDelete = {}
  /\ fileEvents = <<>>
  /\ lastDeletedEvent = {}

NoQueueOp == [op |-> "init", id |-> 0, w |-> 0, before |-> {}, beforeImm |-> <<>>,
              undo |-> FALSE, size0 |-> 0, during |-> {}]

InitQueue ==
  /\ timeoutCallbacks = {}
  /\ immediates = <<>>
  /\ nextId = 1
  /\ fired = <<>>
  /\ cancelled = {}
  /\ waiters = <<>>
  /\ lastQ = NoQueueOp

Init == InitWatch /\ InitQueue

\* a notification operation leaves W as the new state
Commit(W) ==
  /\ pre' = Snapshot
  /\ fileWatchersMap' = W.fw
  /\ directoryWatchersMap' = W.dw
  /\ recursiveDirectoryWatchersMap' = W.rw
  /\ deletedFiles' = W.deleted
  /\ log' = W.log
  /\ fileEvents' = W.events
  /\ lastDeletedEvent' =
       (lastDeletedEvent
          \cup {W.events[i].path : i \in {j \in DOMAIN W.events : W.events[j].event = "Deleted"}})
          \ {W.events[i].path : i \in {j \in DOMAIN W.events : W.events[j].event = "Created"}}
  /\ UNCHANGED <<caseSensitive, handles, queueVars>>

\* ---------------------------------------------------------- watch actions
\* A handle is what its close() closes over: the registry, the path and the
\* callback; n tells the handles of one registration apart, in the order they
\* were returned.  For the properties it also remembers whether it was closed,
\* whether the same callback was registered again on the same path of the same
\* registry after that, and whether close() was called on another handle of
\* the same registration since this one was returned.
SameReg(h, map, path, cb) == h.map = map /\ h.path = path /\ h.cb = cb

NewHandle(map, path, cb) ==
  [map |-> map, path |-> path, cb |-> cb,
   n |-> Cardinality({h \in handles : SameReg(h, map, path, cb)}) + 1,
   closed |-> FALSE, again |-> FALSE, shadowed |-> FALSE]

Register(map, path, cb) ==
  handles' = {IF SameReg(h, map, path, cb) /\ h.closed
                THEN [h EXCEPT !.again = TRUE] ELSE h : h \in handles}
             \cup {NewHandle(map, path, cb)}

WatchFile ==
  \E raw \in RawFilePaths, cb \in Callbacks :
    LET path == normalizePath(caseSensitive, raw) IN
    /\ Cardinality(handles) < MaxHandles
    /\ pre' = Snapshot
    /\ fileWatchersMap' = createWatcher(fileWatchersMap, path, cb)
    /\ Register("file", path, cb)
    /\ log' = <<>>
    /\ lastOp' = [op |-> "watchFile", path |-> path, h |-> NewHandle("file", path, cb)]
    /\ fileEvents' = <<>>
    /\ UNCHANGED <<caseSensitive, directoryWatchersMap, recursiveDirectoryWatchersMap,
                   deletedFiles, lastWasDelete, lastDeletedEvent, queueVars>>

WatchDirectory ==
  \E raw \in RawDirPaths, cb \in Callbacks, recursive \in BOOLEAN :
    LET path == normalizePath(caseSensitive, raw) IN
    /\ Cardinality(handles) < MaxHandles
    /\ pre' = Snapshot
    /\ IF recursive
         THEN /\ recursiveDirectoryWatchersMap' =
                   createWatcher(recursiveDirectoryWatchersMap, path, cb)
              /\ Register("rdir", path, cb)
              /\ UNCHANGED directoryWatchersMap
         ELSE /\ directoryWatchersMap' = createWatcher(directoryWatchersMap, path, cb)
              /\ Register("dir", path, cb)
              /\ UNCHANGED recursiveDirectoryWatchersMap
    /\ log' = <<>>
    /\ lastOp' = [op |-> "watchDirectory", path |-> path,
                  h |-> NewHandle(IF recursive THEN "rdir" ELSE "dir", path, cb)]
    /\ fileEvents' = <<>>
    /\ UNCHANGED <<caseSensitive, fileWatchersMap, deletedFiles, lastWasDelete,
                   lastDeletedEvent, queueVars>>

\* handle.close(), on any handle returned so far, closed before or not
Close ==
  \E h \in handles :
    /\ pre' = Snapshot
    /\ fileWatchersMap' =
         IF h.map = "file" THEN closeWatcher(fileWatchersMap, h.path, h.cb)
         ELSE fileWatchersMap
    /\ directoryWatchersMap' =
         IF h.map = "dir" THEN closeWatcher(directoryWatchersMap, h.path, h.cb)
         ELSE directoryWatchersMap
    /\ recursiveDirectoryWatchersMap' =
         IF h.map = "rdir" THEN closeWatcher(recursiveDirectoryWatchersMap, h.path, h.cb)
         ELSE recursiveDirectoryWatchersMap
    /\ handles' = {IF g = h THEN [g EXCEPT !.closed = TRUE, !.again = FALSE]
                   ELSE IF SameReg(g, h.map, h.path, h.cb)
                     THEN [g EXCEPT !.shadowed = TRUE]
                     ELSE g : g \in handles}
    /\ log' = <<>>
    /\ lastOp' = [op |-> "close", path |-> h.path, h |-> h]
    /\ fileEvents' = <<>>
    /\ UNCHANGED <<caseSensitive, deletedFiles, lastWasDelete, lastDeletedEvent, queueVars>>

\* -------------------------------------------------- notification actions
\* lastOp.op is the kind of notification: "changed" for writeFile and
\* invokeFileChanged, "deleted" for deleteFile and invokeFileDeleted (the
\* store's own writeFile and deleteFile hold the content, which no watcher,
\* mark or task reads).
Op(op, path) == [op |-> op, path |-> path, h |-> NoHandle]

WriteFile ==
  \E raw \in RawFilePaths :
    LET path == normalizePath(caseSensitive, raw) IN
    /\ lastOp' = Op("changed", path)
    /\ lastWasDelete' = lastWasDelete \ {path}
    /\ Commit(invokeFileChanged(World, path))

DeleteFile ==
  \E raw \in RawFilePaths :
    LET path == normalizePath(caseSensitive, raw) IN
    /\ lastOp' = Op("deleted", path)
    /\ lastWasDelete' = lastWasDelete \cup {path}
    /\ Commit(invokeFileDeleted(World, path))

InvokeFileChanged ==
  \E raw \in RawFilePaths :
    LET path == normalizePath(caseSensitive, raw) IN
    /\ lastOp' = Op("changed", path)
    /\ lastWasDelete' = lastWasDelete \ {path}
    /\ Commit(invokeFileChanged(World, path))

InvokeFileDeleted ==
  \E raw \in RawFilePaths :
    LET path == normalizePath(caseSensitive, raw) IN
    /\ lastOp' = Op("deleted", path)
    /\ lastWasDelete' = lastWasDelete \cup {path}
    /\ Commit(invokeFileDeleted(World, path))

SetModifiedTime ==
  \E raw \in RawFilePaths :
    LET path == normalizePath(caseSensitive, raw) IN
    /\ lastOp' = Op("setModifiedTime", path)
    /\ UNCHANGED lastWasDelete
    /\ Commit(setModifiedTime(World, path))

CreateDirectory ==
  \E raw \in RawNewDirs :
    LET path == normalizePath(caseSensitive, raw) IN
    /\ lastOp' = Op("createDirectory", path)
    /\ UNCHANGED lastWasDelete
    /\ Commit(createDirectory(World, path))

Next ==
  \/ WatchFile
  \/ WatchDirectory
  \/ Close
  \/ WriteFile
  \/ DeleteFile
  \/ InvokeFileChanged
  \/ InvokeFileDeleted
  \/ SetModifiedTime
  \/ CreateDirectory

Spec == Init /\ [][Next]_vars

\* ------------------------------------------- callbacks that call back
\* The system with watchers whose callbacks register and close watchers while
\* a pass is running: one file, its parent and its grandparent, and a system
\* that folds case.
ReentrantFile == <<"a", "b", "c">>
FileCallbacks == {"cb1", "addFile", "closeFile"}
DirectoryCallbacks == {"cb1", "addRecursive", "closeRecursive"}
DirectoryWatches ==
  {[path |-> dirname(ReentrantFile), recursive |-> FALSE],
   [path |-> dirname(ReentrantFile), recursive |-> TRUE],
   [path |-> dirname(dirname(ReentrantFile)), recursive |-> TRUE]}

InitReentrant == Init /\ caseSensitive = FALSE

WatchFileReentrant ==
  \E cb \in FileCallbacks :
    LET path == normalizePath(caseSensitive, ReentrantFile) IN
    /\ Cardinality(handles) < MaxReentrantHandles
    /\ pre' = Snapshot
    /\ fileWatchersMap' = createWatcher(fileWatchersMap, path, cb)
    /\ Register("file", path, cb)
    /\ log' = <<>>
    /\ lastOp' = [op |-> "watchFile", path |-> path, h |-> NewHandle("file", path, cb)]
    /\ fileEvents' = <<>>
    /\ UNCHANGED <<caseSensitive, directoryWatchersMap, recursiveDirectoryWatchersMap,
                   deletedFiles, lastWasDelete, lastDeletedEvent, queueVars>>

WatchDirectoryReentrant ==
  \E d \in DirectoryWatches, cb \in DirectoryCallbacks :
    LET path == normalizePath(caseSensitive, d.path) IN
    /\ Cardinality(handles) < MaxReentrantHandles
    /\ pre' = Snapshot
    /\ IF d.recursive
         THEN /\ recursiveDirectoryWatchersMap' =
                   createWatcher(recursiveDirectoryWatchersMap, path, cb)
              /\ Register("rdir", path, cb)
              /\ UNCHANGED directoryWatchersMap
         ELSE /\ directoryWatchersMap' = createWatcher(directoryWatchersMap, path, cb)
              /\ Register("dir", path, cb)
              /\ UNCHANGED recursiveDirectoryWatchersMap
    /\ log' = <<>>
    /\ lastOp' = [op |-> "watchDirectory", path |-> path,
                  h |-> NewHandle(IF d.recursive THEN "rdir" ELSE "dir", path, cb)]
    /\ fileEvents' = <<>>
    /\ UNCHANGED <<caseSensitive, fileWatchersMap, deletedFiles, lastWasDelete,
                   lastDeletedEvent, queueVars>>

NextReentrant ==
  \/ WatchFileReentrant
  \/ WatchDirectoryReentrant
  \/ WriteFile
  \/ DeleteFile
  \/ SetModifiedTime

SpecReentrant == InitReentrant /\ [][NextReentrant]_vars

\* ========================================================= the task queue
\* The host runs the callbacks given to setImmediate one after the other, in
\* the order of the calls; a callback queued while another runs comes after
\* everything queued before it.  An entry of the queue is the wrapper of a
\* timeout (kind "task", the Immediate object id, the chain its callback still
\* starts, the task whose callback scheduled it) or the resolve of the promise
\* a waitForQueued call awaits (kind "resolve", the call w).  `throws` tells
\* a timeout whose callback raises an exception instead of returning.
Task(id, chain, parent) ==
  [kind |-> "task", id |-> id, chain |-> chain, parent |-> parent, w |-> 0,
   throws |-> FALSE]
ThrowingTask(id) == [Task(id, 0, 0) EXCEPT !.throws = TRUE]
Resolve(w) == [kind |-> "resolve", id |-> 0, chain |-> 0, parent |-> 0, w |-> w,
               throws |-> FALSE]

setImmediate(imm, entry) == Append(imm, entry)
clearImmediate(imm, id) == SelectSeq(imm, LAMBDA e : ~(e.kind = "task" /\ e.id = id))

\* `seen` is timeoutCallbacks as the callback of the last wrapper run found it
Queue == [set |-> timeoutCallbacks, imm |-> immediates, nextId |-> nextId,
          fired |-> fired, waiters |-> waiters, seen |-> {}]

\* a setTimeout whose callback runs before the ones already queued
setTimeout_Front(Q, chain, parent) ==
  [Q EXCEPT !.imm = <<Task(Q.nextId, chain, parent)>> \o @,
            !.set = @ \cup {Q.nextId},
            !.nextId = @ + 1]

\* setTimeout(callback, timeout, ...args); the callback of the model schedules
\* a next task while `chain` is positive
setTimeout(Q, chain, parent) ==
  [Q EXCEPT !.imm = setImmediate(@, Task(Q.nextId, chain, parent)),
            !.set = @ \cup {Q.nextId},
            !.nextId = @ + 1]

\* setTimeout with a callback that throws when it is called
setTimeoutThrowing(Q) ==
  [Q EXCEPT !.imm = setImmediate(@, ThrowingTask(Q.nextId)),
            !.set = @ \cup {Q.nextId},
            !.nextId = @ + 1]

\* a clearTimeout that forgets the id and leaves the Immediate queued
clearTimeout_SetOnly(Q, timeoutId) == [Q EXCEPT !.set = @ \ {timeoutId}]

clearTimeout(Q, timeoutId) ==
  [Q EXCEPT !.imm = clearImmediate(@, timeoutId),
            !.set = @ \ {timeoutId}]

\* a wrapper that deletes the id first and calls the callback after
timeoutWrapper_DeleteFirst(Q, e) ==
  LET deleted == [Q EXCEPT !.set = @ \ {e.id}]
      called == [deleted EXCEPT !.fired = Append(@, [id |-> e.id, parent |-> e.parent,
                                                       chain |-> e.chain,
                                                       threw |-> e.throws]),
                                !.seen = deleted.set]
  IN IF e.chain > 0 /\ ~e.throws THEN setTimeout(called, e.chain - 1, e.id) ELSE called

\* the function setTimeout gives to setImmediate: the callback, then the
\* delete; an exception of the callback leaves the function before the delete
timeoutWrapper(Q, e) ==
  LET called == [Q EXCEPT !.fired = Append(@, [id |-> e.id, parent |-> e.parent,
                                                  chain |-> e.chain,
                                                  threw |-> e.throws]),
                          !.seen = Q.set]
      after == IF e.chain > 0 THEN setTimeout(called, e.chain - 1, e.id) ELSE called
  IN IF e.throws THEN called ELSE [after EXCEPT !.set = @ \ {e.id}]

\* What becomes of the exception that left the wrapper: nothing in the queue
\* catches it, so it reaches the host, which ends the process ("exit", the
\* default) or hands it to a handler the embedding program installed and
\* goes on with its queue ("continue").  `fault` marks the waitForQueued calls
\* that were waiting when it happened.
HostOutcomes == {"exit", "continue"}

uncaughtException(Q, outcome) ==
  IF outcome = "exit"
    THEN [Q EXCEPT !.imm = <<>>,
                   !.waiters = [w \in DOMAIN @ |->
                                  IF @[w].state = "waiting"
                                    THEN [@[w] EXCEPT !.state = "ended", !.fault = TRUE]
                                    ELSE @[w]]]
    ELSE [Q EXCEPT !.waiters = [w \in DOMAIN @ |->
                                  IF @[w].state = "waiting"
                                    THEN [@[w] EXCEPT !.fault = TRUE] ELSE @[w]]]

\* a waitForQueued that yields one turn and returns
waitForQueuedLoop_Once(Q, w, resumed) ==
  IF Cardinality(Q.set) > 0 /\ ~resumed
    THEN [Q EXCEPT !.imm = setImmediate(@, Resolve(w)),
                   !.waiters = [@ EXCEPT ![w].state = "waiting"]]
    ELSE [Q EXCEPT !.waiters = [@ EXCEPT ![w].state = "resolved"]]

\* one evaluation of the loop of waitForQueued by call w, at the call
\* (resumed = FALSE) or when the awaited promise resolved (resumed = TRUE)
waitForQueuedLoop(Q, w, resumed) ==
  IF Cardinality(Q.set) > 0
    THEN [Q EXCEPT !.imm = setImmediate(@, Resolve(w)),
                   !.waiters = [@ EXCEPT ![w].state = "waiting"]]
    ELSE [Q EXCEPT !.waiters = [@ EXCEPT ![w].state = "resolved"]]

CommitQueue(Q, op) ==
  /\ timeoutCallbacks' = Q.set
  /\ immediates' = Q.imm
  /\ nextId' = Q.nextId
  /\ fired' = Q.fired
  /\ waiters' = Q.waiters
  /\ lastQ' = op
  /\ UNCHANGED watchVars

\* the tasks the callbacks of the queued tasks will still schedule
RECURSIVE Reserved(_)
Reserved(imm) ==
  IF imm = <<>> THEN 0 ELSE Head(imm).chain + Reserved(Tail(imm))

QueuedIds(imm) == {imm[i].id : i \in {j \in DOMAIN imm : imm[j].kind = "task"}}

\* the process has not ended
Running == lastQ.op # "exit"

SetTimeout ==
  \E chain \in 0..MaxChain :
    /\ Running
    /\ (nextId - 1) + Reserved(immediates) + 1 + chain <= MaxTasks
    /\ cancelled' = cancelled
    /\ CommitQueue(setTimeout(Queue, chain, 0),
                   [NoQueueOp EXCEPT !.op = "setTimeout", !.id = nextId,
                                     !.before = timeoutCallbacks,
                                     !.beforeImm = immediates])

SetTimeoutThrowing ==
  /\ Running
  /\ (nextId - 1) + Reserved(immediates) + 1 <= MaxTasks
  /\ cancelled' = cancelled
  /\ CommitQueue(setTimeoutThrowing(Queue),
                 [NoQueueOp EXCEPT !.op = "setTimeout", !.id = nextId,
                                   !.before = timeoutCallbacks,
                                   !.beforeImm = immediates])

ClearTimeout ==
  \E timeoutId \in 1..(nextId - 1) :
    /\ Running
    /\ cancelled' = IF timeoutId \in timeoutCallbacks
                      THEN cancelled \cup {timeoutId} ELSE cancelled
    /\ CommitQueue(clearTimeout(Queue, timeoutId),
                   [NoQueueOp EXCEPT !.op = "clearTimeout", !.id = timeoutId,
                                     !.before = timeoutCallbacks,
                                     !.beforeImm = immediates,
                                     !.undo = (lastQ.op = "setTimeout" /\ lastQ.id = timeoutId),
                                     !.size0 = Cardinality(lastQ.before)])

WaitForQueued ==
  /\ Running
  /\ Len(waiters) < MaxWaiters
  /\ cancelled' = cancelled
  /\ LET w == Len(waiters) + 1
         Q == [Queue EXCEPT !.waiters = Append(@, [state |-> "called", since |-> nextId,
                                                       fault |-> FALSE])]
         R == waitForQueuedLoop(Q, w, FALSE)
     IN CommitQueue(R, [NoQueueOp EXCEPT
                          !.op = IF R.waiters[w].state = "resolved"
                                   THEN "resolved" ELSE "waiting",
                          !.w = w,
                          !.before = timeoutCallbacks, !.beforeImm = immediates])

\* the host runs the wrapper of the timeout at the head of its queue
FireTimeout ==
  /\ Running
  /\ immediates # <<>>
  /\ Head(immediates).kind = "task"
  /\ cancelled' = cancelled
  /\ \E outcome \in IF Head(immediates).throws THEN HostOutcomes ELSE {"continue"} :
       LET e == Head(immediates)
           Q == [Queue EXCEPT !.imm = Tail(@)]
           R == timeoutWrapper(Q, e)
       IN CommitQueue(IF e.throws THEN uncaughtException(R, outcome) ELSE R,
                      [NoQueueOp EXCEPT
                         !.op = IF ~e.throws THEN "fire"
                                ELSE IF outcome = "exit" THEN "exit" ELSE "fault",
                         !.id = e.id,
                         !.before = timeoutCallbacks,
                         !.beforeImm = immediates,
                         !.during = R.seen])

\* the host runs the resolve at the head of its queue and waitForQueued goes on
ResumeWait ==
  /\ Running
  /\ immediates # <<>>
  /\ Head(immediates).kind = "resolve"
  /\ cancelled' = cancelled
  /\ LET e == Head(immediates)
         Q == [Queue EXCEPT !.imm = Tail(@)]
         R == waitForQueuedLoop(Q, e.w, TRUE)
     IN CommitQueue(R, [NoQueueOp EXCEPT
                          !.op = IF R.waiters[e.w].state = "resolved"
                                   THEN "resolved" ELSE "waiting",
                          !.w = e.w,
                          !.before = timeoutCallbacks, !.beforeImm = immediates])

NextQueue ==
  \/ SetTimeout
  \/ ClearTimeout
  \/ WaitForQueued
  \/ FireTimeout
  \/ ResumeWait

SpecQueue == Init /\ [][NextQueue]_vars

\* the queue with callbacks that may throw
NextFault ==
  \/ SetTimeout
  \/ SetTimeoutThrowing
  \/ ClearTimeout
  \/ WaitForQueued
  \/ FireTimeout
  \/ ResumeWait

SpecFault == Init /\ [][NextFault]_vars

\* ======================================================= watcher properties
Root == <<>>

IsProperAncestor(d, p) == Len(d) < Len(p) /\ SubSeq(p, 1, Len(d)) = d

\* the parent directory of p; the root directory is its own parent
IsDirectParent(d, p) ==
  \/ Len(p) > 0 /\ Len(d) = Len(p) - 1 /\ SubSeq(p, 1, Len(d)) = d
  \/ p = Root /\ d = Root

Count(list, x) == Cardinality({i \in DOMAIN list : list[i] = x})

RegistryOf(map, snap) ==
  IF map = "file" THEN snap.fw ELSE IF map = "dir" THEN snap.dw ELSE snap.rw

Now == [fw |-> fileWatchersMap, dw |-> directoryWatchersMap,
        rw |-> recursiveDirectoryWatchersMap, deleted |-> deletedFiles]

\* the calls of the last operation made through one registry
CallsOf(map) == SelectSeq(log, LAMBDA e : e.map = map)

Called(map, key, cb, path) ==
  \E i \in DOMAIN log :
    log[i].map = map /\ log[i].key = key /\ log[i].cb = cb /\ log[i].path = path

\* the file events a pass with event kind `event` owes the watchers `list` of p
FileEvents(list, p, event) ==
  [i \in 1..Len(list) |->
     [map |-> "file", key |-> p, cb |-> list[i], path |-> p, event |-> event]]

\* the last operation fired a file notification for its path
FiredFileNotification ==
  \/ lastOp.op \in {"changed", "setModifiedTime"}
  \/ lastOp.op = "deleted" /\ lastOp.path \notin pre.lastWasDelete

\* C1: a write or change notification on p invokes, with p, every recursive
\* directory watcher registered on any proper ancestor of p, the root included.
C1_RecursiveWatchersOfEveryAncestor ==
  lastOp.op = "changed" =>
    \A d \in DOMAIN pre.rw :
      IsProperAncestor(d, lastOp.path) =>
        \A i \in DOMAIN pre.rw[d] : Called("rdir", d, pre.rw[d][i], lastOp.path)

\* C2: closing an open handle removes exactly one registration of its callback
\* from its path, so a callback registered twice stays registered once.
C2_CloseRemovesOneRegistration ==
  (lastOp.op = "close" /\ ~lastOp.h.closed) =>
    Count(MapGet(RegistryOf(lastOp.h.map, Now), lastOp.h.path), lastOp.h.cb)
      = Count(MapGet(RegistryOf(lastOp.h.map, pre), lastOp.h.path), lastOp.h.cb) - 1

\* C3: close() on a handle that was closed before leaves the three registries
\* as they were.
C3_SecondCloseChangesNothing ==
  (lastOp.op = "close" /\ lastOp.h.closed) =>
    /\ fileWatchersMap = pre.fw
    /\ directoryWatchersMap = pre.dw
    /\ recursiveDirectoryWatchersMap = pre.rw

\* C4: a write (writeFile, invokeFileChanged) to p fires, for each file watcher
\* of p, exactly one event: "Created" when the latest write or delete of p was
\* a delete, "Changed" otherwise (p never deleted, or written since).
C4_ChangedOrCreated ==
  lastOp.op = "changed" =>
    CallsOf("file") =
      FileEvents(MapGet(pre.fw, lastOp.path), lastOp.path,
                 IF lastOp.path \in pre.lastWasDelete THEN "Created" ELSE "Changed")

C4_Witness ==
  /\ lastOp.op = "changed"
  /\ lastOp.path \in pre.lastWasDelete
  /\ Len(MapGet(pre.fw, lastOp.path)) > 0
  /\ \E i \in DOMAIN log : log[i].event = "Created"

\* C5: a delete notification (deleteFile, invokeFileDeleted) for p whose latest
\* write or delete was already a delete invokes no watcher and changes no
\* state; one that is not a repeat fires "Deleted" once per file watcher of p.
C5_DeleteIsIdempotent ==
  lastOp.op = "deleted" =>
    IF lastOp.path \in pre.lastWasDelete
      THEN /\ log = <<>>
           /\ Now = [fw |-> pre.fw, dw |-> pre.dw, rw |-> pre.rw, deleted |-> pre.deleted]
      ELSE CallsOf("file") = FileEvents(MapGet(pre.fw, lastOp.path), lastOp.path, "Deleted")

C5_Witness ==
  /\ lastOp.op = "deleted"
  /\ lastOp.path \in pre.lastWasDelete
  /\ Len(MapGet(fileWatchersMap, lastOp.path)) > 0
  /\ Len(MapGet(directoryWatchersMap, dirname(lastOp.path))) > 0

\* C8: a file watcher whose handle was closed, and whose callback was not
\* registered on that path again, is invoked by no later notification; and a
\* file notification for p invokes every watcher of p whose handle is open,
\* whatever handles of other callbacks were closed.
C8_ClosedNotInvokedOthersAre ==
  /\ \A h \in handles :
       (h.map = "file" /\ h.closed /\ ~h.again) =>
         ~\E i \in DOMAIN log : log[i].map = "file" /\ log[i].key = h.path /\ log[i].cb = h.cb
  /\ FiredFileNotification =>
       \A h \in handles :
         (h.map = "file" /\ h.path = lastOp.path /\ ~h.closed /\ ~h.shadowed) =>
           Called("file", h.path, h.cb, lastOp.path)

C8_Witness ==
  /\ FiredFileNotification
  /\ \E h \in handles, g \in handles :
       /\ h.map = "file" /\ g.map = "file"
       /\ h.path = lastOp.path /\ g.path = lastOp.path
       /\ h.cb # g.cb
       /\ h.closed /\ ~g.closed
       /\ Called("file", g.path, g.cb, lastOp.path)
       /\ ~Called("file", h.path, h.cb, lastOp.path)

\* C9: a non-recursive directory watcher on d is invoked for a notified path p
\* only when d is the parent directory of p, never for a path deeper below d.
C9_NonRecursiveOnlyDirectChildren ==
  \A i \in DOMAIN log :
    log[i].map = "dir" =>
      /\ IsDirectParent(log[i].key, log[i].path)
      /\ Count(MapGet(pre.dw, log[i].key), log[i].cb) > 0

C9_Witness ==
  /\ lastOp.op = "changed"
  /\ Len(lastOp.path) = 3
  /\ Len(MapGet(pre.dw, dirname(lastOp.path))) > 0
  /\ Len(MapGet(pre.dw, dirname(dirname(lastOp.path)))) > 0
  /\ \E i \in DOMAIN log : log[i].map = "dir" /\ log[i].key = dirname(lastOp.path)
  /\ ~\E i \in DOMAIN log : log[i].map = "dir" /\ log[i].key = dirname(dirname(lastOp.path))

\* ========================================================= queue properties
FiredIds == {fired[i].id : i \in DOMAIN fired}
IssuedIds == 1..(nextId - 1)

C7_ResolvesOnlyWhenDrained ==
  lastQ.op = "resolved" =>
    /\ timeoutCallbacks = {}
    /\ QueuedIds(immediates) = {}
    /\ \A i \in DOMAIN fired :
         fired[i].chain > 0 =>
           \E id \in IssuedIds :
             /\ id > fired[i].id
             /\ \/ id \in cancelled
                \/ \E j \in DOMAIN fired : fired[j].id = id /\ fired[j].parent = fired[i].id

C7_Witness ==
  /\ lastQ.op = "resolved"
  /\ waiters[lastQ.w].since = 2
  /\ Len(fired) = 3
  /\ fired[1].parent = 0 /\ fired[2].parent = 1 /\ fired[3].parent = 2

\* C10: timeouts fire in the order they were scheduled (no timeout fires while
\* one scheduled before it is still to fire), those scheduled from inside
\* firing callbacks included, and when a pending waitForQueued resolves every
\* timeout scheduled so far has fired or was cleared.
C10_FiresInScheduleOrder ==
  /\ \A i, j \in DOMAIN fired : i < j => fired[i].id < fired[j].id
  /\ \A i \in DOMAIN fired :
       \A id \in 1..(fired[i].id - 1) : id \in FiredIds \cup cancelled
  /\ lastQ.op = "resolved" => IssuedIds \subseteq FiredIds \cup cancelled

C10_Witness ==
  /\ lastQ.op = "resolved"
  /\ lastQ.beforeImm # <<>>
  /\ Len(fired) = 3
  /\ fired[2].parent = 0 /\ fired[3].parent = 1


\* ------------------------------------------- further watcher properties
\* the calls a pass for p owes the directory watchers `list` of `key`
DirCalls(map, list, key, p) ==
  [i \in 1..Len(list) |->
     [map |-> map, key |-> key, cb |-> list[i], path |-> p, event |-> "None"]]

\* the file callbacks the last operation called with "Changed" or "Created"
ChangedOrCreatedCalls ==
  {i \in DOMAIN log : log[i].map = "file" /\ log[i].event \in {"Changed", "Created"}}

\* C12: setModifiedTime(p) calls the non-recursive watchers of p's parent
\* with p, fires the one file event "Changed" for p and hands it to every
\* file watcher of p, whether p is marked deleted or not, and leaves the
\* deleted marks of all paths as they were.
C12_SetModifiedTimeIgnoresMark ==
  lastOp.op = "setModifiedTime" =>
    /\ fileEvents = <<[path |-> lastOp.path, event |-> "Changed"]>>
    /\ CallsOf("file") = FileEvents(MapGet(pre.fw, lastOp.path), lastOp.path, "Changed")
    /\ CallsOf("dir") = DirCalls("dir", MapGet(pre.dw, dirname(lastOp.path)),
                                 dirname(lastOp.path), lastOp.path)
    /\ deletedFiles = pre.deleted

C12_Witness ==
  /\ lastOp.op = "setModifiedTime"
  /\ lastOp.path \in pre.deleted
  /\ lastOp.path \in deletedFiles
  /\ Len(CallsOf("file")) > 0

\* C14 as stated: a path for which a file watcher was called with "Changed"
\* or "Created" is not marked deleted when the operation has returned.
C14_MarkClearedByChangedOrCreated ==
  \A i \in ChangedOrCreatedCalls : log[i].path \notin deletedFiles

\* C14: after a file watcher of p was called with "Changed" or "Created", p
\* is not marked deleted when the operation has returned if the operation was
\* writeFile or invokeFileChanged; after setModifiedTime p is marked exactly
\* when it was marked before.
C14_MarkClearedByWriteOnly ==
  \A i \in ChangedOrCreatedCalls :
    log[i].path \in deletedFiles
      <=> (lastOp.op = "setModifiedTime" /\ log[i].path \in pre.deleted)

C14_Witness ==
  /\ lastOp.op = "changed"
  /\ lastOp.path \in pre.deleted
  /\ \E i \in ChangedOrCreatedCalls : log[i].event = "Created"
  /\ lastOp.path \notin deletedFiles

\* C18: no registry holds an empty callback list, and every key is a
\* normalized path, so that two spellings of one path share one entry;
\* registering appends the callback to the list the path had; after a close
\* the path has an entry exactly when a callback other than the closed one
\* was registered on it.
C18_RegistryShape ==
  /\ \A map \in {"file", "dir", "rdir"} :
       \A k \in DOMAIN RegistryOf(map, Now) :
         /\ Len(RegistryOf(map, Now)[k]) > 0
         /\ normalizePath(caseSensitive, k) = k
  /\ lastOp.op \in {"watchFile", "watchDirectory"} =>
       MapGet(RegistryOf(lastOp.h.map, Now), lastOp.path)
         = Append(MapGet(RegistryOf(lastOp.h.map, pre), lastOp.path), lastOp.h.cb)
  /\ lastOp.op = "close" =>
       (lastOp.path \in DOMAIN RegistryOf(lastOp.h.map, Now)
          <=> \E i \in DOMAIN MapGet(RegistryOf(lastOp.h.map, pre), lastOp.path) :
                MapGet(RegistryOf(lastOp.h.map, pre), lastOp.path)[i] # lastOp.h.cb)

C18_Witness ==
  /\ lastOp.op = "close"
  /\ Len(MapGet(RegistryOf(lastOp.h.map, pre), lastOp.path)) = 1
  /\ lastOp.path \notin DOMAIN RegistryOf(lastOp.h.map, Now)
  /\ \E map \in {"file", "dir", "rdir"} :
       \E k \in DOMAIN RegistryOf(map, Now) : Len(RegistryOf(map, Now)[k]) > 0

\* C20: the "Deleted" and "Created" events of a path alternate, "Deleted"
\* first: "Created" is fired only when the latest of the two for that path
\* was "Deleted", "Deleted" only when it was not, and a path is marked
\* deleted exactly when the latest of the two was "Deleted".
C20_DeletedCreatedAlternate ==
  /\ \A i \in DOMAIN fileEvents :
       /\ fileEvents[i].event = "Created" => fileEvents[i].path \in pre.lastDeletedEvent
       /\ fileEvents[i].event = "Deleted" => fileEvents[i].path \notin pre.lastDeletedEvent
  /\ deletedFiles = lastDeletedEvent

C20_Witness ==
  /\ lastOp.op = "changed"
  /\ fileEvents = <<[path |-> lastOp.path, event |-> "Created"]>>
  /\ lastOp.path \in pre.lastDeletedEvent
  /\ lastOp.path \notin deletedFiles
  /\ \E q \in lastDeletedEvent : q # lastOp.path


\* --------------------------------------------- further queue properties
\* C13: while the callback of a firing timeout runs, timeoutCallbacks does
\* not hold the id of that timeout: the id is deleted before the callback
\* starts.
C13_IdRemovedBeforeCallback ==
  lastQ.op \in {"fire", "fault"} => lastQ.id \notin lastQ.during

\* C11: a waitForQueued call that was waiting when a callback threw has
\* ended: it does not go back to waiting once no timeout is left to run.
C11_DrainEndsAfterFault ==
  \A w \in DOMAIN waiters :
    (waiters[w].fault /\ lastQ.op = "waiting" /\ lastQ.w = w) =>
      QueuedIds(immediates) # {}

\* C15: between two turns timeoutCallbacks holds exactly the ids that
\* setTimeout returned and that were neither fired nor cleared, as many as
\* there are timeouts still to fire.
C15_PendingSetIsScheduledUnfired ==
  Running =>
    /\ timeoutCallbacks = IssuedIds \ (FiredIds \cup cancelled)
    /\ Cardinality(timeoutCallbacks) = Cardinality(QueuedIds(immediates))


\* ------------------------------------------- properties of one pass
\* the last operation ran a directory pass and a file pass for NotifiedPath
Notified == fileEvents # <<>>
NotifiedPath == fileEvents[1].path

\* the calls of the last operation made for the list of one recursive key
CallsAt(map, key) == SelectSeq(log, LAMBDA e : e.map = map /\ e.key = key)

\* C16: a file pass for p calls the callbacks that were registered for p when
\* it began, each once per registration and in registration order, whatever
\* watchers of p those callbacks add or close while it runs.
C16_FilePassUsesStartList ==
  Notified =>
    CallsOf("file") =
      FileEvents(MapGet(pre.fw, NotifiedPath), NotifiedPath, fileEvents[1].event)

C16_Witness ==
  /\ Notified
  /\ \E i, j \in DOMAIN log :
       /\ i < j
       /\ log[i].map = "file" /\ log[i].cb = "closeFile"
       /\ log[j].map = "file" /\ log[j].cb = "cb1"
  /\ \E i \in DOMAIN log : log[i].map = "file" /\ log[i].cb = "addFile"
  /\ Registered(pre.fw, NotifiedPath, "cb1")
  /\ ~Registered(fileWatchersMap, NotifiedPath, "cb1")
  /\ ~Registered(pre.fw, NotifiedPath, "cb2")
  /\ Registered(fileWatchersMap, NotifiedPath, "cb2")

\* C17: a directory pass for p calls the directory watchers that were
\* registered when it began: the non-recursive ones of p's parent and, for
\* every ancestor of p below the root, its recursive ones, whatever directory
\* watchers the callbacks add or close on an ancestor while it runs.
C17_DirectoryPassUsesStartLists ==
  Notified =>
    /\ CallsOf("dir") = DirCalls("dir", MapGet(pre.dw, dirname(NotifiedPath)),
                                 dirname(NotifiedPath), NotifiedPath)
    /\ \A n \in 1..(Len(NotifiedPath) - 1) :
         CallsAt("rdir", SubSeq(NotifiedPath, 1, n))
           = DirCalls("rdir", MapGet(pre.rw, SubSeq(NotifiedPath, 1, n)),
                      SubSeq(NotifiedPath, 1, n), NotifiedPath)

\* the place of a call in a pass for p: the parent's non-recursive watchers,
\* the recursive watchers by distance from p, the file watchers
Rank(e) ==
  IF e.map = "dir" THEN 0
  ELSE IF e.map = "rdir" THEN Len(e.path) - Len(e.key)
  ELSE Len(e.path) + 1

\* C19: in one notification for p the calls come in this order: the
\* non-recursive watchers of p's parent, the recursive watchers of the
\* ancestors from the nearest outwards, then every file watcher of p in
\* registration order; all of them are made when the operation returns.
C19_PassOrder ==
  Notified =>
    /\ \A i, j \in DOMAIN log : i < j => Rank(log[i]) <= Rank(log[j])
    /\ \A i \in DOMAIN log : log[i].map = "dir" => log[i].key = dirname(NotifiedPath)
    /\ [i \in 1..Len(CallsOf("file")) |-> CallsOf("file")[i].cb]
         = MapGet(pre.fw, NotifiedPath)

C19_Witness ==
  /\ Notified
  /\ \E i, j, k \in DOMAIN log :
       /\ i < j /\ j < k
       /\ log[i].map = "dir" /\ log[j].map = "rdir" /\ log[k].map = "file"

====
